---- MODULE Spec2Model ----
(***************************************************************************)
(* Model of sources/webserver/WebServer.cpp (HyperHDR): the WebServer      *)
(* object that owns one QtHttpServer listener and re-applies its settings  *)
(* (document root, port, TLS certificate and key) at run time.             *)
(*                                                                         *)
(* Signals are connected with direct connections inside one thread         *)
(* (initServer, lines 47-49), so a slot runs inside the call that emits    *)
(* its signal: one action below is one whole call of a handler.            *)
(***************************************************************************)
EXTENDS Integers, Sequences, FiniteSets, TLC

(***************************************************************************)
(* Bounds of the model                                                     *)
(***************************************************************************)
\* The clock runs from 0 to MaxNow ticks.
MaxNow == 2
\* Ticks in one calendar day (QDateTime::daysTo counts calendar days).
TicksPerDay == 2
\* The number of ports at the top of the 16-bit range that direct calls of
\* portAvailable are tried on.
MaxProbe == 5
\* The number of configuration changes that may wait for their apply.
MaxPending == 2

(***************************************************************************)
(* Program constants                                                       *)
(***************************************************************************)
\* quint16: the width of a port number.
PortModulus == 65536

\* No value: no port bound, nothing published, no service registered.
None == -1

\* The literal the document root is compared with (line 124), which is the
\* value of WEBSERVER_DEFAULT_PATH.
WEBSERVER_DEFAULT_PATH == ":/webconfig"
WEBSERVER_DEFAULT_KEY_PATH == ":/default.key"
WEBSERVER_DEFAULT_CRT_PATH == ":/default.crt"

(***************************************************************************)
(* The environment: ports, the file system, the files' contents            *)
(***************************************************************************)
\* Ports a third party (another process, or the other WebServer instance)
\* may hold.  Every other port is free.
ThirdPartyPorts == {8090, 8091, 65535}

\* Ports the operating system hands out for a listen on port 0.
EphemeralPorts == {49152, 49153}

\* QString::trimmed() on the strings of the model: "" and " " are blank.
Trimmed(s) == IF s \in {"", " "} THEN "" ELSE s

\* QFileInfo::exists() and QFileInfo::isDir().
ExistingDirs == {":/webconfig", "/www"}
ExistingFiles ==
    {":/default.key", ":/default.crt", "/etc/enc.key", "/etc/garbage.key",
     "/etc/mixed.crt", "/etc/expired.crt", "/www/index.html"}
FileExists(path) == path \in ExistingDirs \cup ExistingFiles
IsDir(path) == path \in ExistingDirs

\* A time far enough ahead that a certificate valid until then never expires
\* while the clock runs.
Far == (MaxNow + 2) * TicksPerDay

Cert(id, isNull, notAfter) == [id |-> id, isNull |-> isNull, notAfter |-> notAfter]

\* QSslCertificate::fromDevice(&cfile, QSsl::Pem): the certificates of the
\* file, in file order; the empty list for a file that cannot be opened.
CertificatesFromDevice(path) ==
    CASE path = ":/default.crt"    -> << Cert("d", FALSE, Far) >>
      [] path = "/etc/mixed.crt"   -> << Cert("a", FALSE, Far),
                                         Cert("b", FALSE, 1),
                                         Cert("n", TRUE, 0),
                                         Cert("c", FALSE, TicksPerDay + 1),
                                         Cert("e", FALSE, Far) >>
      [] path = "/etc/expired.crt" -> << Cert("x", FALSE, 0) >>
      [] OTHER                     -> << >>

NullKey == [id |-> "null"]

\* QSslKey(&kfile, QSsl::Rsa, QSsl::Pem, QSsl::PrivateKey, passPhrase): the
\* key of the file, null when the file holds no RSA PEM key or the pass
\* phrase does not open it.
SslKeyFromDevice(path, passPhrase) ==
    CASE path = ":/default.key" -> [id |-> "default"]
      [] path = "/etc/enc.key"  -> IF passPhrase = "secret"
                                   THEN [id |-> "enc"] ELSE NullKey
      [] OTHER                  -> NullKey

\* QDateTime::daysTo: the number of midnights between two times.
DaysTo(from, to) == (to \div TicksPerDay) - (from \div TicksPerDay)


(***************************************************************************)
(* State                                                                   *)
(***************************************************************************)
VARIABLES
    port,             \* WebServer::_port
    useSsl,           \* WebServer::_useSsl
    baseUrl,          \* WebServer::_baseUrl, as forwarded to StaticFileServing
    inited,           \* WebServer::_inited
    serviceRegister,  \* the port of WebServer::_serviceRegister, None if nullptr
    listening,        \* _server->isListening()
    boundPort,        \* the port the listener is bound to, None if not bound
    certificates,     \* _server->getCertificates()
    privateKey,       \* _server->getPrivateKey()
    occupied,         \* the ports third parties hold
    now,              \* QDateTime::currentDateTime()
    published,        \* the value of the last portChanged signal, None if none
    stateSignal,      \* the value of the last stateChange signal (1, 0), None if none
    last              \* the handleSettingsUpdate call just made (its input, its trace,
                      \* the state it started from), until the environment changes

vars == << port, useSsl, baseUrl, inited, serviceRegister, listening, boundPort,
           certificates, privateKey, occupied, now, published, stateSignal,
           last >>

\* One entry of the trace of a call: a call made, or a signal emitted.
Op(name, arg) == [op |-> name, arg |-> arg]
Log(m, name, arg) == [m EXCEPT !.ops = Append(@, Op(name, arg))]

(***************************************************************************)
(* The slots of the listener's signals                                     *)
(***************************************************************************)
\* A started slot that keeps whatever announcement it already has.
OnServerStartedKeep(m, p) ==
    LET m1 == [m EXCEPT !.inited = TRUE]
        m2 == IF ~m1.useSsl /\ m1.serviceRegister = None
              THEN Log([m1 EXCEPT !.serviceRegister = p], "registerService", p)
              ELSE m1
    IN  Log([m2 EXCEPT !.stateSignal = 1], "stateChange", 1)

\* WebServer::onServerStarted(port), built with ENABLE_BONJOUR.
OnServerStarted(m, p) ==
    LET m1 == [m EXCEPT !.inited = TRUE]
        m2 == IF ~m1.useSsl /\ (m1.serviceRegister = None \/ m1.serviceRegister # p)
              THEN Log([m1 EXCEPT !.serviceRegister = p], "registerService", p)
              ELSE m1
    IN  Log([m2 EXCEPT !.stateSignal = 1], "stateChange", 1)

\* WebServer::onServerStopped().
OnServerStopped(m) ==
    Log([m EXCEPT !.stateSignal = 0], "stateChange", 0)

\* An error slot that tells the observers the listener is down.
OnServerErrorSignals(m) ==
    Log(Log([m EXCEPT !.stateSignal = 0], "logError", None), "stateChange", 0)

\* An error slot that starts the listener again on the next port.
OnServerErrorRetry(m) ==
    Log(Log([m EXCEPT !.ops = Append(@, Op("logError", None)),
                      !.listening = TRUE,
                      !.boundPort = (m.port + 1) % PortModulus],
            "start", (m.port + 1) % PortModulus),
        "started", (m.port + 1) % PortModulus)

\* WebServer::onServerError(msg): writes the message to the log.
OnServerError(m) == Log(m, "logError", None)

(***************************************************************************)
(* The listener (QtHttpServer and its QTcpServer)                          *)
(***************************************************************************)
\* The mark in the set of occupied ports that says third parties hold every
\* port there is, so that no listen succeeds, not even one on port 0.
EveryPort == PortModulus

\* QTcpServer::listen(QHostAddress::Any, p): port 0 asks the operating
\* system for a free port; any other port must be free.
CanListen(p, occ) == EveryPort \notin occ /\ (p = 0 \/ p \notin occ)

\* QTcpServer::serverPort() after a listen on p: the port itself, or for
\* port 0 the port eph the operating system chose.
ServerPort(p, eph) == IF p = 0 THEN eph ELSE p

\* QtHttpServer::stop(): closes a listening socket and emits stopped();
\* nothing to do when the listener is not listening.
ServerStop(m) ==
    IF m.listening
    THEN OnServerStopped(Log([m EXCEPT !.listening = FALSE, !.boundPort = None],
                             "stopped", None))
    ELSE m

\* QtHttpServer::start(p): binds a listener that is not listening and emits
\* started(serverPort) or error(msg); a listening listener is left as it is.
ServerStart(m, p, eph) ==
    IF m.listening THEN m
    ELSE IF CanListen(p, m.occupied)
         THEN OnServerStarted(
                  Log([m EXCEPT !.listening = TRUE, !.boundPort = ServerPort(p, eph)],
                      "started", ServerPort(p, eph)),
                  ServerPort(p, eph))
         ELSE OnServerError(Log(m, "error", p))


(***************************************************************************)
(* WebServer::portAvailable                                                *)
(***************************************************************************)
\* quint16 arithmetic: port++ wraps from 65535 to 0.
Incr16(p) == (p + 1) % PortModulus

\* A probe that gives up after one increment (an if in place of the while).
ProbeOnce(p, occ) == IF CanListen(p, occ) THEN p ELSE Incr16(p)

\* The loop of portAvailable: the first port from p on, counting in quint16,
\* that the probe server can listen on.
RECURSIVE ProbeFrom(_, _)
ProbeFrom(p, occ) ==
    IF CanListen(p, occ) THEN p ELSE ProbeFrom(Incr16(p), occ)

\* The probe server after server.close(): it holds no port.
ProbeClose(p) == {}

\* portAvailable(port, log): the port settled on (written back through the
\* reference), the value returned (true iff the port was not changed), and
\* the ports the probe server still holds on return.
PortAvailable(p, occ) ==
    LET settled == ProbeFrom(p, occ)
    IN  [port |-> settled,
         ret  |-> ~(settled # p),
         held |-> ProbeClose(settled)]

(***************************************************************************)
(* WebServer::handleSettingsUpdate, step by step                           *)
(***************************************************************************)
\* A document root that is accepted as soon as it exists.
ResolveDocumentRootAnyFile(root) ==
    IF root # ":/webconfig" /\ Trimmed(root) # ""
    THEN IF ~FileExists(root) THEN WEBSERVER_DEFAULT_PATH ELSE root
    ELSE WEBSERVER_DEFAULT_PATH

\* Lines 121-137: the document root, replaced by the default when it is the
\* default, blank, missing or no directory, and forwarded to
\* StaticFileServing.
ResolveDocumentRoot(root) ==
    IF root # ":/webconfig" /\ Trimmed(root) # ""
    THEN IF ~FileExists(root) \/ ~IsDir(root) THEN WEBSERVER_DEFAULT_PATH ELSE root
    ELSE WEBSERVER_DEFAULT_PATH

SetDocumentRoot(m, cfg) ==
    Log([m EXCEPT !.baseUrl = ResolveDocumentRoot(cfg.document_root)],
        "setBaseUrl", None)

\* A requested port chosen by the TLS mode the configuration asks for.
NewPortByConfig(cfg, ssl) ==
    (IF cfg.useTls THEN cfg.sslPort ELSE cfg.port) % PortModulus

\* Line 140: the requested port, from sslPort for a TLS instance and from
\* port otherwise, converted to quint16.
NewPort(cfg, ssl) == (IF ssl THEN cfg.sslPort ELSE cfg.port) % PortModulus

\* WebServer::stop() (lines 235-238).
Stop(m) == ServerStop(Log(m, "stop", None))

\* WebServer::start() (lines 230-233); eph is the port the operating system
\* would choose for a listen on port 0.
Start(m, eph) == ServerStart(Log(m, "start", m.port), m.port, eph)

\* A port update that forgets to stop the listener.
UpdatePortNoStop(m, cfg) == [m EXCEPT !.port = NewPort(cfg, m.useSsl)]

\* Lines 141-145: a requested port other than _port is stored and the
\* listener stopped.
UpdatePort(m, cfg) ==
    LET newPort == NewPort(cfg, m.useSsl)
    IN  IF m.port # newPort THEN Stop([m EXCEPT !.port = newPort]) ELSE m

\* Lines 148-149: a listener that is not listening has its port probed.
EvalPort(m) ==
    IF ~m.listening
    THEN LET r == PortAvailable(m.port, m.occupied)
         IN  Log([m EXCEPT !.port = r.port,
                           !.probeIn = m.port,
                           !.probeOut = r.port,
                           !.probeRet = r.ret,
                           !.probeHeld = r.held,
                           !.occupied = @ \cup r.held],
                 "portAvailable", r.port)
    ELSE m


\* Lines 161-171 and 174-184: the key path, and likewise the certificate
\* path, is the built-in one when the configured path is the built-in one,
\* blank, or names no file.
ResolveKeyPath(keyPath) ==
    IF keyPath # WEBSERVER_DEFAULT_KEY_PATH /\ Trimmed(keyPath) # ""
    THEN IF ~FileExists(keyPath) THEN WEBSERVER_DEFAULT_KEY_PATH ELSE keyPath
    ELSE WEBSERVER_DEFAULT_KEY_PATH

\* A certificate path that is not checked for existence.
ResolveCrtPathUnchecked(crtPath) ==
    IF crtPath # WEBSERVER_DEFAULT_CRT_PATH /\ Trimmed(crtPath) # ""
    THEN crtPath
    ELSE WEBSERVER_DEFAULT_CRT_PATH

ResolveCrtPath(crtPath) ==
    IF crtPath # WEBSERVER_DEFAULT_CRT_PATH /\ Trimmed(crtPath) # ""
    THEN IF ~FileExists(crtPath) THEN WEBSERVER_DEFAULT_CRT_PATH ELSE crtPath
    ELSE WEBSERVER_DEFAULT_CRT_PATH

\* A validity test that forgets the expiry date.
CertNotNull(entry, t) == ~entry.isNull

\* Line 195: a certificate is kept when it is not null and its expiry date
\* is at least one calendar day after t.
CertValid(entry, t) == ~entry.isNull /\ DaysTo(t, entry.notAfter) > 0

\* Lines 194-199: the valid certificates of the list, in its order.
ValidList(cList, t) == SelectSeq(cList, LAMBDA entry : CertValid(entry, t))

\* Lines 201-207: a non-empty list of valid certificates is installed.
SetupCertificates(m, validList) ==
    IF validList # << >>
    THEN Log([m EXCEPT !.certificates = validList], "setCertificates", Len(validList))
    ELSE m

\* Lines 216-222: a key that is not null is installed.
SetupPrivateKey(m, key) ==
    IF key = NullKey
    THEN m
    ELSE Log([m EXCEPT !.privateKey = key], "setPrivateKey", None)

\* Lines 152-223: the TLS material of a TLS instance.
SetupSsl(m, cfg) ==
    IF m.useSsl
    THEN LET keyPath == ResolveKeyPath(cfg.keyPath)
             crtPath == ResolveCrtPath(cfg.crtPath)
             cList == CertificatesFromDevice(crtPath)
             m1 == SetupCertificates([m EXCEPT !.crtPath = crtPath, !.keyPath = keyPath],
                                     ValidList(cList, m.now))
         IN  SetupPrivateKey(m1, SslKeyFromDevice(keyPath, cfg.keyPassPhrase))
    ELSE m

\* The environment between the release of the probe (line 105) and the bind
\* of the listener (line 232): a third party may take the probed port.
Race(m, race) ==
    IF race /\ ~m.listening /\ m.port \in ThirdPartyPorts
    THEN [m EXCEPT !.occupied = @ \cup {m.port}, !.raced = TRUE]
    ELSE m

\* A portChanged that is emitted only when the port is not the published one.
EmitPortChangedOnChange(m) ==
    IF m.published # m.port
    THEN Log([m EXCEPT !.published = m.port], "portChanged", m.port)
    ELSE m

\* Line 226: emit portChanged(_port).
EmitPortChanged(m) == Log([m EXCEPT !.published = m.port], "portChanged", m.port)

\* A body that emits portChanged before it starts the listener.
ApplyWebserverPublishFirst(m, cfg, race, eph) ==
    LET m1 == SetDocumentRoot(m, cfg)
        m2 == UpdatePort(m1, cfg)
        m3 == EvalPort(m2)
        m4 == SetupSsl(m3, cfg)
        m5 == Race(m4, race)
        m6 == EmitPortChanged(m5)
    IN  Start(m6, eph)

\* Lines 116-227: the body of handleSettingsUpdate for type WEBSERVER.
ApplyWebserver(m, cfg, race, eph) ==
    LET m1 == SetDocumentRoot(m, cfg)
        m2 == UpdatePort(m1, cfg)
        m3 == EvalPort(m2)
        m4 == SetupSsl(m3, cfg)
        m5 == Race(m4, race)
        m6 == Start(m5, eph)
    IN  EmitPortChanged(m6)

\* The state a call starts from, with an empty trace.
Machine ==
    [port |-> port, useSsl |-> useSsl, baseUrl |-> baseUrl, inited |-> inited,
     serviceRegister |-> serviceRegister, listening |-> listening,
     boundPort |-> boundPort, certificates |-> certificates,
     privateKey |-> privateKey, occupied |-> occupied, now |-> now,
     published |-> published, stateSignal |-> stateSignal,
     ops |-> << >>, probeIn |-> None, probeOut |-> None, probeRet |-> TRUE,
     probeHeld |-> {},
     crtPath |-> "", keyPath |-> "", raced |-> FALSE]

\* What is kept of the state a call started from.
Pre ==
    [port |-> port, useSsl |-> useSsl, listening |-> listening,
     boundPort |-> boundPort, certificates |-> certificates,
     privateKey |-> privateKey, published |-> published, occupied |-> occupied,
     serviceRegister |-> serviceRegister, stateSignal |-> stateSignal]

NoCall == "none"

\* The record of a call.
Call(type, cfg, m) ==
    [type |-> type, cfg |-> cfg, ops |-> m.ops, pre |-> Pre, at |-> now,
     repeat |-> (last.type = "WEBSERVER" /\ last.cfg = cfg),
     otherOnly |-> (/\ last.type = "WEBSERVER"
                    /\ last.cfg # cfg
                    /\ last.cfg = IF useSsl THEN [cfg EXCEPT !.port = last.cfg.port]
                                  ELSE [cfg EXCEPT !.sslPort = last.cfg.sslPort]),
     probeIn |-> m.probeIn, probeOut |-> m.probeOut, probeRet |-> m.probeRet,
     probeHeld |-> m.probeHeld,
     crtPath |-> m.crtPath, keyPath |-> m.keyPath, raced |-> m.raced]

\* handleSettingsUpdate(type, config): a type other than WEBSERVER is ignored.
HandleSettingsUpdate(type, cfg, race, eph) ==
    LET m == IF type = "WEBSERVER" THEN ApplyWebserver(Machine, cfg, race, eph)
             ELSE Machine
    IN  /\ port' = m.port
        /\ baseUrl' = m.baseUrl
        /\ inited' = m.inited
        /\ serviceRegister' = m.serviceRegister
        /\ listening' = m.listening
        /\ boundPort' = m.boundPort
        /\ certificates' = m.certificates
        /\ privateKey' = m.privateKey
        /\ occupied' = m.occupied
        /\ published' = m.published
        /\ stateSignal' = m.stateSignal
        /\ last' = Call(type, cfg, m)
        /\ UNCHANGED << useSsl, now >>

(***************************************************************************)
(* The environment's own steps                                             *)
(***************************************************************************)
\* A third party binds a free port.
ThirdPartyTake(p) ==
    /\ p \notin occupied
    /\ ~(listening /\ boundPort = p)
    /\ occupied' = occupied \cup {p}
    /\ last' = [type |-> NoCall]
    /\ UNCHANGED << port, useSsl, baseUrl, inited, serviceRegister, listening,
                    boundPort, certificates, privateKey, now, published,
                    stateSignal >>

\* A third party releases a port it holds.
ThirdPartyRelease(p) ==
    /\ p \in occupied
    /\ occupied' = occupied \ {p}
    /\ last' = [type |-> NoCall]
    /\ UNCHANGED << port, useSsl, baseUrl, inited, serviceRegister, listening,
                    boundPort, certificates, privateKey, now, published,
                    stateSignal >>

\* Time passes.
Tick ==
    /\ now < MaxNow
    /\ now' = now + 1
    /\ last' = [type |-> NoCall]
    /\ UNCHANGED << port, useSsl, baseUrl, inited, serviceRegister, listening,
                    boundPort, certificates, privateKey, occupied, published,
                    stateSignal >>

\* A call of portAvailable(port, log) by itself, on requested port p.
PortAvailableCall(p) ==
    LET r == PortAvailable(p, occupied)
    IN  /\ last' = [type |-> "portAvailable", pre |-> Pre, probeIn |-> p,
                    probeOut |-> r.port, probeRet |-> r.ret, probeHeld |-> r.held]
        /\ occupied' = occupied \cup r.held
        /\ UNCHANGED << port, useSsl, baseUrl, inited, serviceRegister, listening,
                        boundPort, certificates, privateKey, now, published,
                        stateSignal >>

(***************************************************************************)
(* Configurations                                                          *)
(***************************************************************************)
\* The configuration object: the fields handleSettingsUpdate reads, and
\* useTls, the TLS mode a configuration asks for, which it does not read.
Config(root, p, sp, key, crt, pass, tls) ==
    [document_root |-> root, port |-> p, sslPort |-> sp, keyPath |-> key,
     crtPath |-> crt, keyPassPhrase |-> pass, useTls |-> tls]

\* Configurations that vary the ports and the TLS mode asked for.
PortConfigs ==
    { Config("/www", p, sp, WEBSERVER_DEFAULT_KEY_PATH, WEBSERVER_DEFAULT_CRT_PATH, "", tls) :
        p \in {8090, 65535}, sp \in {8090, 65535}, tls \in BOOLEAN }

\* Configurations that vary the TLS material.
KeySettings ==
    { << WEBSERVER_DEFAULT_KEY_PATH, "" >>, << " ", "" >>, << "/etc/enc.key", "" >>,
      << "/etc/enc.key", "secret" >>, << "/etc/garbage.key", "" >>,
      << "/etc/missing.key", "" >> }

TlsConfigs ==
    { Config("/www", 8090, 8092, ks[1], crt, ks[2], TRUE) :
        ks \in KeySettings,
        crt \in {WEBSERVER_DEFAULT_CRT_PATH, "", "/etc/mixed.crt", "/etc/expired.crt",
                 "/etc/missing.crt"} }

\* A configuration delivered with a settings type other than WEBSERVER.
OtherConfig == Config("", 0, 0, "", "", "", FALSE)

(***************************************************************************)
(* Specifications                                                          *)
(***************************************************************************)
\* The state after construction (lines 19-28); the server object holds no
\* certificate and a null key.
InitWith(ssl) ==
    /\ port = 0
    /\ useSsl = ssl
    /\ baseUrl = ""
    /\ inited = FALSE
    /\ serviceRegister = None
    /\ listening = FALSE
    /\ boundPort = None
    /\ certificates = << >>
    /\ privateKey = NullKey
    /\ occupied = {}
    /\ now = 0
    /\ published = None
    /\ stateSignal = None
    /\ last = [type |-> NoCall]

Init == \E ssl \in BOOLEAN : InitWith(ssl)

Next ==
    \/ \E cfg \in PortConfigs, race \in BOOLEAN, eph \in EphemeralPorts :
            HandleSettingsUpdate("WEBSERVER", cfg, race, eph)
    \/ \E eph \in EphemeralPorts : HandleSettingsUpdate("LOGGER", OtherConfig, FALSE, eph)
    \/ \E p \in ThirdPartyPorts : ThirdPartyTake(p)
    \/ \E p \in ThirdPartyPorts : ThirdPartyRelease(p)

Spec == Init /\ [][Next]_vars

\* A TLS instance whose configurations vary the TLS material while time passes.
InitTls == InitWith(TRUE)

NextTls ==
    \/ \E cfg \in TlsConfigs, eph \in EphemeralPorts :
            HandleSettingsUpdate("WEBSERVER", cfg, FALSE, eph)
    \/ \E eph \in EphemeralPorts : HandleSettingsUpdate("LOGGER", OtherConfig, FALSE, eph)
    \/ Tick

SpecTls == InitTls /\ [][NextTls]_vars

\* A plaintext instance whose configurations vary the document root.
RootConfigs ==
    { Config(root, p, 8092, WEBSERVER_DEFAULT_KEY_PATH, WEBSERVER_DEFAULT_CRT_PATH,
             "", FALSE) :
        root \in {":/webconfig", "", " ", "/www", "/missing", "/www/index.html"},
        p \in {8090, 65535} }

InitRoot == InitWith(FALSE)

NextRoot ==
    \/ \E cfg \in RootConfigs, eph \in EphemeralPorts :
            HandleSettingsUpdate("WEBSERVER", cfg, FALSE, eph)
    \/ \E eph \in EphemeralPorts : HandleSettingsUpdate("LOGGER", OtherConfig, FALSE, eph)
    \/ ThirdPartyTake(8090)
    \/ ThirdPartyRelease(8090)

SpecRoot == InitRoot /\ [][NextRoot]_vars

\* portAvailable called by itself on the ports at the top of the 16-bit
\* range, any of which third parties may hold.
ProbeRange == (PortModulus - MaxProbe)..(PortModulus - 1)

InitProbe ==
    /\ port = 0
    /\ useSsl = FALSE
    /\ baseUrl = ""
    /\ inited = FALSE
    /\ serviceRegister = None
    /\ listening = FALSE
    /\ boundPort = None
    /\ certificates = << >>
    /\ privateKey = NullKey
    /\ occupied \in SUBSET ProbeRange
    /\ now = 0
    /\ published = None
    /\ stateSignal = None
    /\ last = [type |-> NoCall]

NextProbe == \E p \in ProbeRange : PortAvailableCall(p)

SpecProbe == InitProbe /\ [][NextProbe]_vars


(***************************************************************************)
(* portAvailable(_port, _log), one loop iteration at a time                *)
(***************************************************************************)
\* Lines 96-99: portAvailable is entered on _port, passed by reference,
\* after line 143 stored the requested port p in it.
PortAvailableEnter(p) ==
    /\ last.type # "probing"
    /\ port' = p
    /\ last' = [type |-> "probing", probeIn |-> p]
    /\ UNCHANGED << useSsl, baseUrl, inited, serviceRegister, listening,
                    boundPort, certificates, privateKey, occupied, now,
                    published, stateSignal >>

\* Lines 100-104: one iteration of the loop: the listen failed, port++.
PortAvailableLoop ==
    /\ last.type = "probing"
    /\ ~CanListen(port, occupied)
    /\ port' = Incr16(port)
    /\ UNCHANGED << useSsl, baseUrl, inited, serviceRegister, listening,
                    boundPort, certificates, privateKey, occupied, now,
                    published, stateSignal, last >>

\* Lines 105-111: the listen succeeded: the probe is closed and
\* portAvailable returns.
PortAvailableReturn ==
    /\ last.type = "probing"
    /\ CanListen(port, occupied)
    /\ last' = [type |-> "probed", probeIn |-> last.probeIn, probeOut |-> port,
                probeRet |-> ~(port # last.probeIn)]
    /\ UNCHANGED << port, useSsl, baseUrl, inited, serviceRegister, listening,
                    boundPort, certificates, privateKey, occupied, now,
                    published, stateSignal >>

\* The state after construction, with some ports, or every port, held by
\* third parties.
InitLoop ==
    /\ port = 0
    /\ useSsl = FALSE
    /\ baseUrl = ""
    /\ inited = FALSE
    /\ serviceRegister = None
    /\ listening = FALSE
    /\ boundPort = None
    /\ certificates = << >>
    /\ privateKey = NullKey
    /\ occupied \in (SUBSET ThirdPartyPorts) \cup {{EveryPort}}
    /\ now = 0
    /\ published = None
    /\ stateSignal = None
    /\ last = [type |-> NoCall]

NextLoop ==
    \/ \E p \in ThirdPartyPorts : PortAvailableEnter(p)
    \/ PortAvailableLoop
    \/ PortAvailableReturn

\* The thread that runs the loop keeps running.
SpecLoop == InitLoop /\ [][NextLoop]_vars /\ WF_vars(NextLoop)

(***************************************************************************)
(* handleSettingsUpdate behind the dispatcher of its thread, one statement *)
(* group at a time                                                         *)
(***************************************************************************)
\* The statement group at place pc of the body of handleSettingsUpdate.
StepAt(pc, m, cfg, eph) ==
    CASE pc = 1 -> SetDocumentRoot(m, cfg)
      [] pc = 2 -> UpdatePort(m, cfg)
      [] pc = 3 -> EvalPort(m)
      [] pc = 4 -> SetupSsl(m, cfg)
      [] pc = 5 -> Start(m, eph)
      [] OTHER  -> EmitPortChanged(m)

LastStep == 6

\* A dispatcher that starts a waiting apply whatever is in flight.
CanDispatchAlways(running) == TRUE

\* The dispatcher starts a waiting apply only when none is in flight.
CanDispatch(running) == running = << >>

\* A configuration change is delivered: its apply is queued.
SettingsChanged(cfg) ==
    /\ last.type = "dispatch"
    /\ Len(last.pending) < MaxPending
    /\ last' = [last EXCEPT !.pending = Append(@, cfg)]
    /\ UNCHANGED << port, useSsl, baseUrl, inited, serviceRegister, listening,
                    boundPort, certificates, privateKey, occupied, now,
                    published, stateSignal >>

\* The dispatcher takes the first waiting apply into flight.
DispatchApply ==
    /\ last.type = "dispatch"
    /\ last.pending # << >>
    /\ CanDispatch(last.running)
    /\ last' = [last EXCEPT !.pending = Tail(@),
                            !.running = Append(@, [cfg |-> Head(last.pending),
                                                   pc |-> 1])]
    /\ UNCHANGED << port, useSsl, baseUrl, inited, serviceRegister, listening,
                    boundPort, certificates, privateKey, occupied, now,
                    published, stateSignal >>

\* The apply at place i of those in flight runs its next statement group;
\* after the last one it has returned.
ApplyStep(i, eph) ==
    /\ last.type = "dispatch"
    /\ i \in DOMAIN last.running
    /\ LET r == last.running[i]
           m == StepAt(r.pc, Machine, r.cfg, eph)
       IN  /\ port' = m.port
           /\ baseUrl' = m.baseUrl
           /\ inited' = m.inited
           /\ serviceRegister' = m.serviceRegister
           /\ listening' = m.listening
           /\ boundPort' = m.boundPort
           /\ certificates' = m.certificates
           /\ privateKey' = m.privateKey
           /\ occupied' = m.occupied
           /\ published' = m.published
           /\ stateSignal' = m.stateSignal
           /\ last' = [last EXCEPT !.running =
                          IF r.pc = LastStep
                          THEN SubSeq(@, 1, i - 1) \o SubSeq(@, i + 1, Len(@))
                          ELSE [@ EXCEPT ![i].pc = r.pc + 1]]
    /\ UNCHANGED << useSsl, now >>

InitSerial ==
    /\ port = 0
    /\ useSsl = FALSE
    /\ baseUrl = ""
    /\ inited = FALSE
    /\ serviceRegister = None
    /\ listening = FALSE
    /\ boundPort = None
    /\ certificates = << >>
    /\ privateKey = NullKey
    /\ occupied \in SUBSET {8090}
    /\ now = 0
    /\ published = None
    /\ stateSignal = None
    /\ last = [type |-> "dispatch", pending |-> << >>, running |-> << >>]

\* Configurations that differ in the requested port.
SerialConfigs ==
    { Config("/www", p, 8092, WEBSERVER_DEFAULT_KEY_PATH, WEBSERVER_DEFAULT_CRT_PATH,
             "", FALSE) : p \in {8090, 65535} }

NextSerial ==
    \/ \E cfg \in SerialConfigs : SettingsChanged(cfg)
    \/ DispatchApply
    \/ \E i \in 1..MaxPending, eph \in EphemeralPorts : ApplyStep(i, eph)

SpecSerial == InitSerial /\ [][NextSerial]_vars

(***************************************************************************)
(* Reading the trace of the call just made                                 *)
(***************************************************************************)
\* The state follows a handleSettingsUpdate call of type WEBSERVER.
Applied == last.type = "WEBSERVER"

\* How often an entry named name occurs in the trace.
Count(name) == Cardinality({ i \in DOMAIN last.ops : last.ops[i].op = name })

\* The place of the first entry named name, 0 if there is none.
Pos(name) ==
    IF Count(name) = 0 THEN 0
    ELSE CHOOSE i \in DOMAIN last.ops :
            /\ last.ops[i].op = name
            /\ \A j \in 1..(i - 1) : last.ops[j].op # name

\* The port the configuration of the call asks for, for the mode the
\* instance was constructed with.
Requested == IF last.pre.useSsl THEN last.cfg.sslPort ELSE last.cfg.port

(***************************************************************************)
(* C1: applying the same configuration twice in succession, with nothing   *)
(* else changing in between, leaves the listener alone the second time: a  *)
(* listener that the first apply left listening is neither stopped nor     *)
(* started again, and portChanged carries the unchanged port.              *)
(***************************************************************************)
C1_ReapplyLeavesListener ==
    (Applied /\ last.repeat /\ last.pre.listening) =>
        /\ Count("stopped") = 0
        /\ Count("started") = 0
        /\ Count("portChanged") = 1
        /\ published = last.pre.published

(***************************************************************************)
(* C2: port negotiation agrees with the reference.  A free requested port  *)
(* P is settled on and reported as not adjusted; when P..P+k are occupied  *)
(* and P+k+1 is a free port, P+k+1 is settled on and reported as adjusted  *)
(* (portAvailable returns false); adjusted is reported iff the settled     *)
(* port differs from P; the probe holds no port on return.                 *)
(***************************************************************************)
C2_PortAvailableReference ==
    (last.type \in {"WEBSERVER", "portAvailable"} /\ last.probeIn # None) =>
        LET P == last.probeIn
            occ == last.pre.occupied
            adjusted == ~last.probeRet
        IN  /\ P \notin occ => (last.probeOut = P /\ ~adjusted)
            /\ \A k \in 0..Cardinality(occ) :
                  ( /\ \A i \in 0..k : P + i \in occ
                    /\ P + k + 1 \notin occ
                    /\ P + k + 1 < PortModulus )
                  => (last.probeOut = P + k + 1 /\ adjusted)
            /\ adjusted <=> (last.probeOut # P)
            /\ last.probeHeld = {}

\* A probe that had to pass two occupied ports.
C2_Witness ==
    /\ last.type = "portAvailable"
    /\ last.probeIn \in last.pre.occupied
    /\ last.probeOut = last.probeIn + 2
    /\ ~last.probeRet

(***************************************************************************)
(* C3: the effective port an apply publishes is at least the requested     *)
(* port.                                                                   *)
(***************************************************************************)
C3_EffectiveAtLeastRequested ==
    Applied => published >= Requested

(***************************************************************************)
(* C4: the port an apply publishes is the port the listener is bound to    *)
(* once the apply has completed, whatever the outcome of the bind.         *)
(***************************************************************************)
C4_PublishedIsBound ==
    Applied => (listening /\ boundPort = published)

(***************************************************************************)
(* C5: every apply of type WEBSERVER emits portChanged exactly once, after *)
(* its start call and as its last step, with the current port, also when   *)
(* the port did not change.                                                *)
(***************************************************************************)
C5_PublishOncePerApply ==
    Applied =>
        /\ Count("portChanged") = 1
        /\ Count("start") = 1
        /\ Pos("start") < Pos("portChanged")
        /\ last.ops[Len(last.ops)] = Op("portChanged", port)
        /\ published = port

\* An apply that published a port it had published before.
C5_Witness ==
    /\ Applied
    /\ last.pre.listening
    /\ last.pre.port = port
    /\ last.pre.published = published
    /\ Count("portChanged") = 1


(***************************************************************************)
(* C6: a TLS apply installs new TLS material only when the load produced   *)
(* both a non-empty list of valid certificates and a key that is not null; *)
(* otherwise the installed certificates and the installed key both stay as *)
(* they were.                                                              *)
(***************************************************************************)
C6_InstalledAsPair ==
    (Applied /\ useSsl) =>
        LET loaded == ValidList(CertificatesFromDevice(last.crtPath), last.at)
            key == SslKeyFromDevice(last.keyPath, last.cfg.keyPassPhrase)
        IN  ~(loaded # << >> /\ key # NullKey) =>
                /\ certificates = last.pre.certificates
                /\ privateKey = last.pre.privateKey

(***************************************************************************)
(* C7: the certificates a TLS apply installs contain no certificate that   *)
(* is null or whose notAfter is in the past at the time of the apply; they *)
(* are certificates of the file in file order, and every certificate of    *)
(* the file that is not null and ends on a later calendar day is among     *)
(* them.                                                                   *)
(***************************************************************************)
C7_InstalledCertificatesValid ==
    (Applied /\ Count("setCertificates") > 0) =>
        LET file == CertificatesFromDevice(last.crtPath)
            kept == { i \in DOMAIN file :
                        \E j \in DOMAIN certificates : certificates[j] = file[i] }
        IN  /\ \A j \in DOMAIN certificates :
                  /\ ~certificates[j].isNull
                  /\ ~(certificates[j].notAfter < last.at)
            /\ certificates = SelectSeq(file, LAMBDA e :
                                  \E j \in DOMAIN certificates : certificates[j] = e)
            /\ \A i \in DOMAIN file :
                  ( /\ ~file[i].isNull
                    /\ file[i].notAfter \div TicksPerDay > last.at \div TicksPerDay )
                  => i \in kept

\* Valid certificates installed from a file that also holds an expired one
\* between them.
C7_Witness ==
    /\ Applied
    /\ Count("setCertificates") > 0
    /\ last.crtPath = "/etc/mixed.crt"
    /\ Len(certificates) >= 2
    /\ \E i \in DOMAIN CertificatesFromDevice(last.crtPath) :
          /\ ~CertificatesFromDevice(last.crtPath)[i].isNull
          /\ CertificatesFromDevice(last.crtPath)[i].notAfter < last.at
          /\ 1 < i
          /\ i < Len(CertificatesFromDevice(last.crtPath))

(***************************************************************************)
(* C8: in a TLS apply a certificate path (and likewise a key path) that is *)
(* blank, the built-in one, or names no file is replaced by the built-in   *)
(* path; the material of the built-in file is parsed, filtered and         *)
(* installed, and the listener start is still attempted.                   *)
(***************************************************************************)
C8_DefaultPathFallback ==
    (Applied /\ useSsl) =>
        /\ ( \/ last.cfg.crtPath \in {"", " ", WEBSERVER_DEFAULT_CRT_PATH}
             \/ ~FileExists(last.cfg.crtPath) )
           => /\ last.crtPath = WEBSERVER_DEFAULT_CRT_PATH
              /\ Count("setCertificates") = 1
              /\ certificates = << Cert("d", FALSE, Far) >>
        /\ ( \/ last.cfg.keyPath \in {"", " ", WEBSERVER_DEFAULT_KEY_PATH}
             \/ ~FileExists(last.cfg.keyPath) )
           => /\ last.keyPath = WEBSERVER_DEFAULT_KEY_PATH
              /\ Count("setPrivateKey") = 1
              /\ privateKey = [id |-> "default"]
        /\ Count("start") = 1
        /\ Count("portChanged") = 1

\* An apply whose certificate and key paths both name no file.
C8_Witness ==
    /\ Applied
    /\ useSsl
    /\ last.cfg.crtPath = "/etc/missing.crt"
    /\ last.cfg.keyPath = "/etc/missing.key"
    /\ last.crtPath = WEBSERVER_DEFAULT_CRT_PATH
    /\ last.keyPath = WEBSERVER_DEFAULT_KEY_PATH
    /\ Count("start") = 1


\* The places in the trace of the steps that follow the port comparison.
LaterSteps ==
    { i \in DOMAIN last.ops :
        last.ops[i].op \in {"portAvailable", "setCertificates", "setPrivateKey",
                            "start", "started", "error", "portChanged"} }

\* The apply found the listener listening on a port other than the requested one.
PortChangeWhileListening ==
    Applied /\ last.pre.listening /\ Requested # last.pre.port

(***************************************************************************)
(* C9 as claimed: when the requested port differs from the current port    *)
(* while the listener is listening, the stop is the first action of the    *)
(* apply, before document-root forwarding, port probing, TLS loading and   *)
(* start, and the apply issues exactly one stop followed by one start.     *)
(***************************************************************************)
C9_StopBeforeAnyAction ==
    PortChangeWhileListening =>
        /\ Count("stop") = 1
        /\ Count("start") = 1
        /\ Pos("stop") < Pos("start")
        /\ \A i \in DOMAIN last.ops : last.ops[i].op # "stop" => Pos("stop") < i

(***************************************************************************)
(* C9 as amended: when the requested port differs from the current port    *)
(* while the listener is listening, the apply forwards the document root   *)
(* first and stops the listener next, before port probing, TLS loading and *)
(* start; it issues exactly one stop followed by exactly one start, and    *)
(* the listener is down from the stop until that start.                    *)
(***************************************************************************)
C9_StopBeforeProbeAndStart ==
    PortChangeWhileListening =>
        /\ Count("stop") = 1
        /\ Count("stopped") = 1
        /\ Count("start") = 1
        /\ Count("portAvailable") = 1
        /\ last.ops[1].op = "setBaseUrl"
        /\ Pos("stop") = 2
        /\ Pos("stopped") = 3
        /\ \A i \in LaterSteps : Pos("stopped") < i
        /\ Pos("portAvailable") < Pos("start")

\* A listener moved from one port to another by one apply.
C9_Witness ==
    /\ PortChangeWhileListening
    /\ Count("started") = 1
    /\ listening
    /\ boundPort # last.pre.boundPort

\* The apply found the listener listening and its configuration asks for
\* the TLS mode the instance does not have.
TlsSwitchWhileListening ==
    Applied /\ last.pre.listening /\ last.cfg.useTls # last.pre.useSsl

PosOp(name, arg) ==
    IF \A i \in DOMAIN last.ops : last.ops[i] # Op(name, arg) THEN 0
    ELSE CHOOSE i \in DOMAIN last.ops :
            /\ last.ops[i] = Op(name, arg)
            /\ \A j \in 1..(i - 1) : last.ops[j] # Op(name, arg)

\* The places in the trace after the listener's error signal.
AfterError == { i \in DOMAIN last.ops : Pos("error") < i }

C12_ErrorThenStateChangeFalse ==
    (Applied /\ Count("error") > 0) =>
        /\ Pos("error") < Pos("logError")
        /\ \E i \in AfterError :
              /\ Pos("logError") < i
              /\ last.ops[i] = Op("stateChange", 0)

(***************************************************************************)
(* C13: a bind failure is not retried: after the error signal the apply    *)
(* issues no further start and no further port probe, the listener is not  *)
(* listening when the apply returns, and no step other than a              *)
(* handleSettingsUpdate call of type WEBSERVER takes a listener that is    *)
(* not listening into listening.                                           *)
(***************************************************************************)
\* The apply just made did nothing more about the listener after its error.
NoRetryInApply ==
    (Applied /\ Count("error") > 0) =>
        /\ \A i \in AfterError :
              last.ops[i].op \notin {"start", "started", "portAvailable"}
        /\ Count("start") = 1
        /\ ~listening
        /\ boundPort = None

C13_NoAutomaticRetry ==
    [][ /\ NoRetryInApply'
        /\ (~listening /\ listening') => Applied' ]_vars

\* An apply whose bind failed because a third party took the probed port.
C13_Witness ==
    /\ Applied
    /\ last.raced
    /\ Count("error") = 1
    /\ ~listening


(***************************************************************************)
(* C14: the port negotiation loop of an apply terminates for every         *)
(* requested port and every set of occupied ports, also when every port    *)
(* is occupied: a portAvailable that was entered returns.                  *)
(***************************************************************************)
C14_NegotiationTerminates ==
    (last.type = "probing") ~> (last.type = "probed")


StartedPort == last.ops[Pos("started")].arg

(***************************************************************************)
(* C16: a TLS instance never announces: only an instance with useSsl false *)
(* registers the announcement, and after a started(port) signal on such an *)
(* instance the announcement carries exactly that port: one for another    *)
(* port (or none) is replaced, one for the same port is left as it is.     *)
(***************************************************************************)
C16_AnnouncementFollowsStarted ==
    /\ useSsl => serviceRegister = None
    /\ (Applied /\ useSsl) => Count("registerService") = 0
    /\ (Applied /\ ~useSsl /\ Count("started") > 0) =>
          /\ serviceRegister = StartedPort
          /\ Count("registerService") =
                (IF last.pre.serviceRegister = StartedPort THEN 0 ELSE 1)
          /\ Count("registerService") = 1 =>
                Pos("registerService") = PosOp("registerService", StartedPort)
    /\ (Applied /\ Count("started") = 0) =>
          /\ Count("registerService") = 0
          /\ serviceRegister = last.pre.serviceRegister

\* A stale announcement for another port is replaced.
C16_Witness ==
    /\ Applied /\ ~useSsl /\ Count("started") = 1
    /\ last.pre.serviceRegister # None
    /\ last.pre.serviceRegister # StartedPort
    /\ serviceRegister = StartedPort

(***************************************************************************)
(* C17: when a plaintext listener that has announced its port leaves       *)
(* Listening, the announcement is withdrawn: no announcement is registered *)
(* while the listener is not listening.                                    *)
(***************************************************************************)
C17_WithdrawnWhenStopped ==
    ~listening => serviceRegister = None


\* The configured document root of the call just made names an existing
\* directory and is not blank.
RootUsable ==
    /\ last.cfg.document_root \notin {"", " "}
    /\ last.cfg.document_root \in ExistingDirs

(***************************************************************************)
(* C18: after every WEBSERVER apply the document root forwarded to         *)
(* StaticFileServing is the built-in default or a configured path that     *)
(* exists and is a directory; a root that is empty, blank, missing or no   *)
(* directory is replaced by the default, the apply goes on and the start   *)
(* of the listener follows.                                                *)
(***************************************************************************)
C18_DocumentRootFallback ==
    Applied =>
        /\ baseUrl = WEBSERVER_DEFAULT_PATH
              \/ (baseUrl = last.cfg.document_root /\ RootUsable)
        /\ ~RootUsable => baseUrl = WEBSERVER_DEFAULT_PATH
        /\ Count("setBaseUrl") = 1
        /\ Count("start") = 1
        /\ Pos("setBaseUrl") < Pos("start")
        /\ Count("portChanged") = 1

\* A root that names a file: replaced, and the listener is started.
C18_Witness ==
    /\ Applied
    /\ last.cfg.document_root = "/www/index.html"
    /\ baseUrl = WEBSERVER_DEFAULT_PATH
    /\ Count("started") = 1
    /\ listening


(***************************************************************************)
(* C19: the requested port of an instance depends on its own port setting  *)
(* alone, so an apply that, right after another, changes only the port     *)
(* field of the other mode while the listener is listening causes no stop, *)
(* no port probe and no change of the bound port.                          *)
(***************************************************************************)
C19_OtherPortIsFrame ==
    (Applied /\ last.otherOnly /\ last.pre.listening) =>
        /\ Count("stop") = 0
        /\ Count("portAvailable") = 0
        /\ listening
        /\ boundPort = last.pre.boundPort


\* The places of the stateChange signals in the trace of the call just made.
StateChanges == { i \in DOMAIN last.ops : last.ops[i].op = "stateChange" }

\* The stateChange value the observers saw last before place i of the trace.
SeenBefore(i) ==
    IF \E j \in StateChanges : j < i
    THEN last.ops[CHOOSE j \in StateChanges :
                     j < i /\ \A k \in StateChanges : k < i => k <= j].arg
    ELSE last.pre.stateSignal

(***************************************************************************)
(* C20: between calls the stateChange value emitted last tells the         *)
(* listener's state (true exactly when it is listening); stateChange(true) *)
(* comes from a started signal only and stateChange(false) from a stopped  *)
(* signal only, and no two stateChange signals in a row carry the same     *)
(* value.                                                                  *)
(***************************************************************************)
C20_StateChangeTellsListenerState ==
    /\ listening <=> stateSignal = 1
    /\ Applied => \A i \in StateChanges :
          /\ i > 1
          /\ last.ops[i].arg = 1 =>
                \/ last.ops[i - 1].op = "started"
                \/ /\ i > 2
                   /\ last.ops[i - 1].op = "registerService"
                   /\ last.ops[i - 2].op = "started"
          /\ last.ops[i].arg = 0 => last.ops[i - 1].op = "stopped"
          /\ last.ops[i].arg # SeenBefore(i)
    /\ Applied =>
          /\ Count("started") = Cardinality({ i \in StateChanges : last.ops[i].arg = 1 })
          /\ Count("stopped") = Cardinality({ i \in StateChanges : last.ops[i].arg = 0 })

\* A listening listener is stopped and its new bind fails.
C20_Witness ==
    /\ Applied
    /\ last.pre.stateSignal = 1
    /\ Count("stopped") = 1
    /\ Count("error") = 1
    /\ stateSignal = 0
    /\ ~listening

====
